---- MODULE Spec2Model ----
(***************************************************************************)
(* PhishGuard background script (extension/background.js).                 *)
(*                                                                         *)
(* A URL is a JavaScript string, modelled as a sequence of one-character   *)
(* strings (UTF-16 code units), so that length, includes and startsWith    *)
(* are computed position by position as the engine computes them.          *)
(*                                                                         *)
(* Two specifications:                                                     *)
(*   Spec      the browser dispatches onBeforeNavigate events to the       *)
(*             registered listener, which evaluates and notifies;          *)
(*   SpecEval  isSuspicious applied to an arbitrary string.                *)
(***************************************************************************)
EXTENDS Integers, Sequences, FiniteSets

VARIABLES
    listeners,      \* the browser's onBeforeNavigate listener registry
    navigated,      \* every navigation event the browser raised (its url)
    calls,          \* details.url of every invocation of the listener
    evaluated,      \* every call of isSuspicious: [url, verdict]
    notifications,  \* every chrome.notifications.create request, in order
    input,          \* SpecEval: the argument of isSuspicious
    result,         \* SpecEval: its return value, "none" before the call
    pc              \* SpecEval: "call" before, "done" after; "idle" in Spec

vars == <<listeners, navigated, calls, evaluated, notifications,
          input, result, pc>>

-----------------------------------------------------------------------------
(* Bounds of the model *)

MaxEvents == 2      \* navigation events per behaviour of Spec
MaxMid == 2         \* length of the free middle part of a SpecEval input
PadSlack == 1       \* padded lengths range over LengthLimit +/- PadSlack

-----------------------------------------------------------------------------
(* String literals of the source, as character sequences *)

LengthLimit == 75

AT == <<"@">>
DASH == <<"-">>
HTTPS == <<"h", "t", "t", "p", "s">>

MessageTemplate ==
    <<"T", "h", "i", "s", " ", "s", "i", "t", "e", " ", "m", "a", "y", " ",
      "b", "e", " ", "a", " ", "p", "h", "i", "s", "h", "i", "n", "g", " ",
      "a", "t", "t", "e", "m", "p", "t", "!", "\n">>

\* The title starts with U+26A0 U+FE0F, written here in escaped form.
AlertTitle == "\\u26A0\\uFE0F PhishGuard Alert"

FilterSchemes == {<<"h", "t", "t", "p">>, HTTPS}

-----------------------------------------------------------------------------
(* String.prototype operations used by the source *)

\* url.includes(s): s occurs as a substring at some position
includes(url, s) ==
    \E i \in 0..(Len(url) - Len(s)) : SubSeq(url, i + 1, i + Len(s)) = s

Lower(c) ==
    CASE c = "H" -> "h"
      [] c = "T" -> "t"
      [] c = "P" -> "p"
      [] c = "S" -> "s"
      [] OTHER -> c

\* bug variant: compares only the positions the url has
startsWithShort(url, p) ==
    \A i \in 1..Len(p) : i <= Len(url) => url[i] = p[i]

\* bug variant: case-insensitive comparison
startsWithIgnoreCase(url, p) ==
    /\ Len(url) >= Len(p)
    /\ \A i \in 1..Len(p) : Lower(url[i]) = Lower(p[i])

\* url.startsWith(p): the first Len(p) code units of url are exactly p
startsWith(url, p) ==
    /\ Len(url) >= Len(p)
    /\ \A i \in 1..Len(p) : url[i] = p[i]

-----------------------------------------------------------------------------
(* isSuspicious *)

LengthRule(url) == Len(url) > LengthLimit
AtRule(url) == includes(url, AT)
DashRule(url) == includes(url, DASH)
SchemeRule(url) == ~startsWith(url, HTTPS)

\* bug variant: off-by-one length comparison
isSuspiciousGeq(url) ==
    IF Len(url) >= LengthLimit THEN TRUE
    ELSE IF AtRule(url) THEN TRUE
    ELSE IF DashRule(url) THEN TRUE
    ELSE IF SchemeRule(url) THEN TRUE
    ELSE FALSE

\* bug variant: an https url is accepted before the other rules are tried
isSuspiciousEarlyExit(url) ==
    IF ~SchemeRule(url) THEN FALSE
    ELSE IF LengthRule(url) THEN TRUE
    ELSE IF AtRule(url) THEN TRUE
    ELSE IF DashRule(url) THEN TRUE
    ELSE TRUE

\* bug variant: the prefix tested is "http"
isSuspiciousHttp(url) ==
    IF LengthRule(url) THEN TRUE
    ELSE IF AtRule(url) THEN TRUE
    ELSE IF DashRule(url) THEN TRUE
    ELSE IF ~startsWith(url, <<"h", "t", "t", "p">>) THEN TRUE
    ELSE FALSE

\* bug variant: once a url has been evaluated, every later one is flagged
isSuspiciousSticky(url) ==
    IF evaluated # <<>> THEN TRUE
    ELSE IF LengthRule(url) THEN TRUE
    ELSE IF AtRule(url) THEN TRUE
    ELSE IF DashRule(url) THEN TRUE
    ELSE IF SchemeRule(url) THEN TRUE
    ELSE FALSE

isSuspicious(url) ==
    IF LengthRule(url) THEN TRUE
    ELSE IF AtRule(url) THEN TRUE
    ELSE IF DashRule(url) THEN TRUE
    ELSE IF SchemeRule(url) THEN TRUE
    ELSE FALSE

-----------------------------------------------------------------------------
(* The listener and its registration *)

\* bug variant: the message carries the url cut at the length limit
NotificationTruncated(url) ==
    [type |-> "basic", iconUrl |-> "icon.png", title |-> AlertTitle,
     message |-> MessageTemplate \o
        (IF Len(url) > LengthLimit THEN SubSeq(url, 1, LengthLimit) ELSE url)]

\* the options object passed to chrome.notifications.create
Notification(url) ==
    [type |-> "basic", iconUrl |-> "icon.png", title |-> AlertTitle,
     message |-> MessageTemplate \o url]

\* bug variant: a url already alerted on is not alerted on again
HandlerDedup(st, url) ==
    LET verdict == isSuspicious(url) IN
    [calls |-> Append(st.calls, url),
     evaluated |-> Append(st.evaluated, [url |-> url, verdict |-> verdict]),
     notifications |->
        IF verdict /\ \A i \in 1..Len(st.calls) : st.calls[i] # url
        THEN Append(st.notifications, Notification(url))
        ELSE st.notifications]

\* bug variant: the alert is raised whatever the verdict
HandlerAlways(st, url) ==
    LET verdict == isSuspicious(url) IN
    [calls |-> Append(st.calls, url),
     evaluated |-> Append(st.evaluated, [url |-> url, verdict |-> verdict]),
     notifications |-> Append(st.notifications, Notification(url))]

\* one invocation of the listener with details.url = url
Handler(st, url) ==
    LET verdict == isSuspicious(url) IN
    [calls |-> Append(st.calls, url),
     evaluated |-> Append(st.evaluated, [url |-> url, verdict |-> verdict]),
     notifications |->
        IF verdict
        THEN Append(st.notifications, Notification(url))
        ELSE st.notifications]

\* bug variant: the filter also lets ftp through
ListenerFilterFtp == [schemes |-> FilterSchemes \cup {<<"f", "t", "p">>}]

\* the event filter given to addListener
ListenerFilter == [schemes |-> FilterSchemes]

\* the registry after the script has run: addListener was called once
RegisteredListeners == <<[filter |-> ListenerFilter]>>

-----------------------------------------------------------------------------
(* The browser side of onBeforeNavigate *)

RECURSIVE IndexOfColon(_, _)
IndexOfColon(url, i) ==
    IF i > Len(url) THEN 0
    ELSE IF url[i] = ":" THEN i
    ELSE IndexOfColon(url, i + 1)

\* the scheme of a url: what precedes its first ':'
SchemeOf(url) ==
    LET k == IndexOfColon(url, 1) IN
    IF k = 0 THEN <<>> ELSE SubSeq(url, 1, k - 1)

FilterMatches(filter, url) == SchemeOf(url) \in filter.schemes

\* the event is handed to every listener whose filter matches, in order
RECURSIVE Dispatch(_, _, _)
Dispatch(ls, st, url) ==
    IF ls = <<>> THEN st
    ELSE Dispatch(Tail(ls),
                  IF FilterMatches(Head(ls).filter, url)
                  THEN Handler(st, url) ELSE st,
                  url)

-----------------------------------------------------------------------------
(* Input universes *)

Pad(n) == [i \in 1..n |-> "a"]

PadTo(u, n) == IF Len(u) >= n THEN u ELSE u \o Pad(n - Len(u))

PadTargets == {0} \cup ((LengthLimit - PadSlack)..(LengthLimit + PadSlack))

SeqsUpTo(S, n) == UNION {[1..k -> S] : k \in 0..n}

Prefixes ==
    { <<>>,
      <<"h">>,
      <<"h", "t", "t", "p">>,
      HTTPS,
      <<"h", "t", "t", "p", "s", "x">>,
      <<"h", "t", "t", "p", "s", "x", "y", "z", ":", "/", "/",
        "h", "o", "s", "t">>,
      <<"h", "t", "t", "p", "s", ":", "/", "/">>,
      <<"h", "t", "t", "p", ":", "/", "/">>,
      <<"H", "T", "T", "P", "S", ":", "/", "/">>,
      <<"H", "t", "t", "p", "s", ":", "/", "/">>,
      <<"h", "t", "t", "p", "S", ":", "/", "/">>,
      <<"x", "h", "t", "t", "p", "s">>,
      <<"f", "t", "p", ":", "/", "/">> }

\* the strings isSuspicious is applied to in SpecEval
Inputs ==
    { PadTo(p \o m, n) :
        p \in Prefixes, m \in SeqsUpTo({"a", "@", "-"}, MaxMid),
        n \in PadTargets }

EventSchemes == {<<"h", "t", "t", "p">>, HTTPS, <<"f", "t", "p">>}

EventHosts == {<<"a">>, <<"a", "-", "b">>, <<"u", "@", "a">>}

\* the urls of the navigation events the browser raises in Spec
EventUrls ==
    { PadTo(s \o <<":", "/", "/">> \o h, n) :
        s \in EventSchemes, h \in EventHosts,
        n \in {0, LengthLimit, LengthLimit + 1} }

-----------------------------------------------------------------------------
(* Spec: the browser raises navigation events *)

Init ==
    /\ listeners = RegisteredListeners
    /\ navigated = <<>>
    /\ calls = <<>>
    /\ evaluated = <<>>
    /\ notifications = <<>>
    /\ input = <<>>
    /\ result = "none"
    /\ pc = "idle"

\* one navigation: the event is raised and every matching listener runs
Navigate ==
    /\ pc = "idle"
    /\ Len(navigated) < MaxEvents
    /\ \E url \in EventUrls :
        LET st == Dispatch(listeners,
                           [calls |-> calls, evaluated |-> evaluated,
                            notifications |-> notifications],
                           url) IN
        /\ navigated' = Append(navigated, url)
        /\ calls' = st.calls
        /\ evaluated' = st.evaluated
        /\ notifications' = st.notifications
    /\ UNCHANGED <<listeners, input, result, pc>>

Next == Navigate

Spec == Init /\ [][Next]_vars

-----------------------------------------------------------------------------
(* SpecEval: isSuspicious applied to one string *)

InitEval ==
    /\ listeners = RegisteredListeners
    /\ navigated = <<>>
    /\ calls = <<>>
    /\ evaluated = <<>>
    /\ notifications = <<>>
    /\ input \in Inputs
    /\ result = "none"
    /\ pc = "call"

Evaluate ==
    /\ pc = "call"
    /\ result' = isSuspicious(input)
    /\ pc' = "done"
    /\ UNCHANGED <<listeners, navigated, calls, evaluated, notifications,
                   input>>

NextEval == Evaluate

SpecEval == InitEval /\ [][NextEval]_vars

-----------------------------------------------------------------------------
(* Vocabulary of the properties, stated on the characters of the string *)

Last(s) == s[Len(s)]

NoChar(u, c) == \A i \in 1..Len(u) : u[i] # c

HasPrefix(u, c1, c2, c3, c4, c5) ==
    /\ Len(u) >= 5
    /\ u[1] = c1 /\ u[2] = c2 /\ u[3] = c3 /\ u[4] = c4 /\ u[5] = c5

\* length <= 75, no '@', no '-', begins with "https"
Benign(u) ==
    /\ Len(u) <= 75
    /\ NoChar(u, "@")
    /\ NoChar(u, "-")
    /\ HasPrefix(u, "h", "t", "t", "p", "s")

HttpUrl(u) ==
    /\ Len(u) >= 7
    /\ SubSeq(u, 1, 7) = <<"h", "t", "t", "p", ":", "/", "/">>

Rule(k, u) ==
    CASE k = 1 -> LengthRule(u)
      [] k = 2 -> AtRule(u)
      [] k = 3 -> DashRule(u)
      [] k = 4 -> SchemeRule(u)

\* the first-true-wins chain with the rules tried in the given order
RECURSIVE ChainInOrder(_, _)
ChainInOrder(order, u) ==
    IF order = <<>> THEN FALSE
    ELSE IF Rule(Head(order), u) THEN TRUE
    ELSE ChainInOrder(Tail(order), u)

RuleOrders ==
    {o \in [1..4 -> 1..4] : \A i, j \in 1..4 : i # j => o[i] # o[j]}

NewNavigation == navigated' # navigated

-----------------------------------------------------------------------------
(* Properties *)

\* C1: isSuspicious(u) is false exactly when u has at most 75 characters,
\* no '@', no '-' and begins with "https"; it is true in every other case,
\* in particular for every u longer than 75 characters.
C1_VerdictIffNoRule ==
    pc = "done" =>
        /\ result \in BOOLEAN
        /\ (result = FALSE) <=> Benign(input)
        /\ (Len(input) > 75 => result = TRUE)

C1_Witness ==
    /\ pc = "done"
    /\ Len(input) = 75
    /\ result = FALSE

\* C2: one listener is registered, and the number of notification requests
\* equals the number of listener invocations with a suspicious url, repeats
\* of a url counted separately.
C2_OneRequestPerSuspiciousEvent ==
    /\ Len(listeners) = 1
    /\ Len(notifications) = Len(SelectSeq(calls, LAMBDA u : ~Benign(u)))

C2_Witness ==
    /\ Len(calls) = 2
    /\ calls[1] = calls[2]
    /\ ~Benign(calls[1])
    /\ Len(notifications) = 2

\* C3: a navigation whose url has verdict false (length <= 75, no '@',
\* no '-', begins with "https") issues no notification request.
C3_NoRequestForBenign ==
    [][(NewNavigation /\ Benign(Last(navigated')))
            => notifications' = notifications]_vars

C3_Witness ==
    \E i \in 1..Len(calls) :
        /\ Benign(calls[i])
        /\ Len(notifications) < Len(calls)

\* C4: a navigation whose scheme is neither http nor https does not reach
\* the listener: nothing is evaluated and no notification is requested.
C4_OtherSchemeFiltered ==
    [][(/\ NewNavigation
        /\ SchemeOf(Last(navigated')) \notin
                {<<"h", "t", "t", "p">>, <<"h", "t", "t", "p", "s">>})
            => UNCHANGED <<calls, evaluated, notifications>>]_vars

C4_Witness ==
    /\ Len(navigated) = 1
    /\ SchemeOf(navigated[1]) = <<"f", "t", "p">>
    /\ ~NoChar(navigated[1], "-")
    /\ calls = <<>>
    /\ notifications = <<>>

\* C5: every notification request issued by a navigation has type "basic",
\* the fixed icon and title, and as message the fixed template followed by
\* the whole url of that very navigation.
C5_RequestCarriesEventUrl ==
    [][NewNavigation =>
        \/ notifications' = notifications
        \/ notifications' =
             Append(notifications,
                    [type |-> "basic", iconUrl |-> "icon.png",
                     title |-> AlertTitle,
                     message |-> MessageTemplate \o Last(navigated')])]_vars

C5_Witness ==
    /\ Len(notifications) = 2
    /\ Len(notifications[1].message) = Len(MessageTemplate) + 76
    /\ notifications[2].message # notifications[1].message

\* C6: isSuspicious returns a boolean for every string; for the empty
\* string it returns true, and only the scheme rule holds of it.
C6_TotalAndEmptyString ==
    pc = "done" =>
        /\ result \in BOOLEAN
        /\ input = <<>> =>
            /\ result = TRUE
            /\ ~LengthRule(input)
            /\ ~AtRule(input)
            /\ ~DashRule(input)
            /\ SchemeRule(input)

C6_Witness ==
    /\ pc = "done"
    /\ input = <<>>
    /\ result = TRUE

C8_RuleOrderImmaterial ==
    pc = "done" =>
        /\ result = (\E k \in 1..4 : Rule(k, input))
        /\ \A o \in RuleOrders : ChainInOrder(o, input) = result

C8_Witness ==
    /\ pc = "done"
    /\ result = TRUE
    /\ ~LengthRule(input)
    /\ ~AtRule(input)
    /\ DashRule(input)
    /\ ~SchemeRule(input)

\* C9: the scheme rule compares the first five characters with "https",
\* case-sensitively and without asking for "://": a short string without
\* '@' and '-' that begins with "https" followed by anything is not
\* flagged, one that begins with "HTTPS" or "Https" is flagged.
C9_SchemeRuleIsExactPrefix ==
    pc = "done" =>
        /\ (/\ HasPrefix(input, "h", "t", "t", "p", "s")
            /\ Len(input) > 5
            /\ input[6] # ":"
            /\ Len(input) <= 75
            /\ NoChar(input, "@")
            /\ NoChar(input, "-")) => result = FALSE
        /\ HasPrefix(input, "H", "T", "T", "P", "S") => result = TRUE
        /\ HasPrefix(input, "H", "t", "t", "p", "s") => result = TRUE

C9_Witness ==
    /\ pc = "done"
    /\ input = <<"h", "t", "t", "p", "s", "x">>
    /\ result = FALSE

\* C10: every navigation delivered to the listener with a url beginning
\* "http://" issues a notification request; a delivered navigation that
\* issues none has scheme https.
C10_HttpAlwaysNotified ==
    [][(NewNavigation /\ calls' # calls) =>
        /\ HttpUrl(Last(navigated'))
             => Len(notifications') = Len(notifications) + 1
        /\ notifications' = notifications
             => SchemeOf(Last(navigated')) = <<"h", "t", "t", "p", "s">>]_vars

C10_Witness ==
    /\ Len(calls) = 1
    /\ calls[1] = <<"h", "t", "t", "p", ":", "/", "/", "a">>
    /\ Len(notifications) = 1

====
